---------------------------- MODULE Spec2Model ----------------------------
(***************************************************************************)
(* Model of the Qrystal Uplink heartbeat client for MicroPython            *)
(* (src/micropython/qrystal.py, class Qrystal, uplink_blocking) and of the  *)
(* caller loop that drives it (src/micropython/esp32/example.py, main).     *)
(*                                                                         *)
(* Strings are sequences of one-character strings, so that `in`, index(),  *)
(* slicing, len() and `+` are computed the way the code computes them.     *)
(***************************************************************************)
EXTENDS Integers, Sequences, FiniteSets

VARIABLES
  _time_ready,          \* Qrystal._time_ready
  _last_sync_time,      \* Qrystal._last_sync_time
  _cached_credentials,  \* Qrystal._cached_credentials
  _cached_device_id,    \* Qrystal._cached_device_id
  _cached_token,        \* Qrystal._cached_token
  connected,            \* what wlan.isconnected() answers
  clock,                \* what time.time() answers
  ntp_available,        \* ntptime is not None (decided at import)
  pc,                   \* the caller loop: "idle" | "returned" | "crashed"
  call,                 \* the call of uplink_blocking that has just returned
  healthy,              \* the caller loop runs under healthy conditions from now on
  conc                  \* two threads inside uplink_blocking: where each is and its locals

vars == <<_time_ready, _last_sync_time, _cached_credentials, _cached_device_id,
          _cached_token, connected, clock, ntp_available, pc, call, healthy, conc>>

---------------------------------------------------------------------------
(* Status codes and thresholds of the program *)

Q_OK == 0
Q_QRYSTAL_ERR == 1
Q_ERR_NO_WIFI == 2
Q_ERR_TIME_NOT_READY == 3
Q_ERR_INVALID_CREDENTIALS == 4
Q_ERR_INVALID_DID == 5
Q_ERR_INVALID_TOKEN == 6
Q_HTTP_ERROR == 7

_YEAR_2026_EPOCH == 1767244149

\* the literal 86400 of the staleness test
STALE_WINDOW == 86400

\* the literals 10, 40 and 5 of the length tests
MIN_DID_LEN == 10
MAX_DID_LEN == 40
MIN_TOKEN_LEN == 5

\* the literals 200 and 300 of the success band
HTTP_OK_LOW == 200
HTTP_OK_HIGH == 300

---------------------------------------------------------------------------
(* Bounds of the model *)

\* clock readings range over the threshold and the staleness edge, each
\* followed by MaxDrift (+1) further seconds
MaxDrift == 1

\* valid tokens have MIN_TOKEN_LEN .. MIN_TOKEN_LEN + MaxTokExtra characters
MaxTokExtra == 1

---------------------------------------------------------------------------
(* Strings *)

Rep(c, n) == [i \in 1..n |-> c]

Str_Bearer == <<"B", "e", "a", "r", "e", "r", " ">>

COLON == ":"

\* s[:i] and s[i:] with Python's 0-based index i
Prefix(s, i) == SubSeq(s, 1, i)
Suffix(s, i) == SubSeq(s, i + 1, Len(s))

\* c in s
Contains(s, c) == \E i \in 1..Len(s) : s[i] = c

\* Index that finds the last c instead of the first (rindex)
Index_last(s, c) == (CHOOSE i \in 1..Len(s) : s[i] = c /\ \A j \in (i + 1)..Len(s) : s[j] # c) - 1

\* s.index(c): 0-based position of the first c (used only when c in s)
Index(s, c) == (CHOOSE i \in 1..Len(s) : s[i] = c /\ \A j \in 1..(i - 1) : s[j] # c) - 1

---------------------------------------------------------------------------
(* Inputs *)

ClockValues ==
  {_YEAR_2026_EPOCH - 1}
    \cup {_YEAR_2026_EPOCH + k : k \in 0..MaxDrift}
    \cup {_YEAR_2026_EPOCH + STALE_WINDOW + k : k \in 0..(MaxDrift + 1)}

DeviceIdLens == {1, MIN_DID_LEN - 1, MIN_DID_LEN, MAX_DID_LEN, MAX_DID_LEN + 1}

TokenLens == {0, MIN_TOKEN_LEN - 1} \cup (MIN_TOKEN_LEN..(MIN_TOKEN_LEN + MaxTokExtra))

Cred(n, m) == Rep("a", n) \o <<COLON>> \o Rep("b", m)

CredentialInputs ==
  {<<>>}
    \cup {Rep("a", 3), Rep("a", MIN_DID_LEN + 2)}
    \cup {<<COLON>>, <<COLON>> \o Rep("b", MIN_TOKEN_LEN), <<COLON>> \o Cred(MIN_DID_LEN, MIN_TOKEN_LEN)}
    \cup {Cred(n, m) : n \in DeviceIdLens, m \in TokenLens}
    \cup {Rep("a", MIN_DID_LEN) \o <<COLON>> \o <<"b", "b", COLON, "b", "b">>,
          Rep("a", MIN_DID_LEN - 4) \o <<COLON>> \o Cred(MIN_DID_LEN, MIN_TOKEN_LEN)}

StatusCodes == {199, 200, 204, 299, 300, 404, 500}

\* what requests.post does when it is called: it raises ("post"), or it
\* returns a response whose status_code read raises ("status_code"), whose
\* close() raises ("close"), or that is read and closed ("none")
HttpBehaviours ==
  {[fault |-> "none", status_code |-> s] : s \in StatusCodes}
    \cup {[fault |-> "post", status_code |-> 0], [fault |-> "status_code", status_code |-> 0]}
    \cup {[fault |-> "close", status_code |-> s] : s \in {200, 500}}

NoHttp == [fault |-> "unused", status_code |-> 0]

\* what ntptime.settime() does when it is called: it raises, or it sets the
\* clock to the time the server gave
NtpBehaviours ==
  {[fault |-> TRUE, time |-> 0]} \cup {[fault |-> FALSE, time |-> t] : t \in ClockValues}

NoNtp == [fault |-> FALSE, time |-> 0]

---------------------------------------------------------------------------
(* Qrystal.uplink_blocking *)

State ==
  [time_ready |-> _time_ready, last_sync_time |-> _last_sync_time,
   cached_credentials |-> _cached_credentials,
   cached_device_id |-> _cached_device_id, cached_token |-> _cached_token]

\* BelowThreshold against a threshold one second too low
BelowThreshold_lax(current_time) == current_time < _YEAR_2026_EPOCH - 1

\* BelowThreshold with the comparison off by one (<= instead of <)
BelowThreshold_inclusive(current_time) == current_time <= _YEAR_2026_EPOCH

\* current_time < _YEAR_2026_EPOCH
BelowThreshold(current_time) == current_time < _YEAR_2026_EPOCH

\* IsStale without the age test: only a clock behind the confirmation is
\* refused
IsStale_rollbackOnly(current_time, last_sync_time) ==
  current_time < last_sync_time

\* IsStale with the window test off by one (>= instead of >)
IsStale_inclusive(current_time, last_sync_time) ==
  current_time < last_sync_time \/ (current_time - last_sync_time) >= STALE_WINDOW

\* staleness (>24h) or clock adjustment
IsStale(current_time, last_sync_time) ==
  current_time < last_sync_time \/ (current_time - last_sync_time) > STALE_WINDOW

\* SyncAttempt without the try block: a failure of settime() leaves the call
SyncAttempt_unguarded(current_time, available, ntp) ==
  IF ~available
    THEN [current_time |-> current_time, clock |-> current_time, syncs |-> 0, raised |-> FALSE]
    ELSE IF ntp.fault
      THEN [current_time |-> current_time, clock |-> current_time, syncs |-> 1, raised |-> TRUE]
      ELSE [current_time |-> ntp.time, clock |-> ntp.time, syncs |-> 1, raised |-> FALSE]

\* the try block around ntptime.settime(): one attempt when ntptime was
\* imported; an exception is swallowed and current_time keeps its value
SyncAttempt(current_time, available, ntp) ==
  IF ~available
    THEN [current_time |-> current_time, clock |-> current_time, syncs |-> 0, raised |-> FALSE]
    ELSE IF ntp.fault
      THEN [current_time |-> current_time, clock |-> current_time, syncs |-> 1, raised |-> FALSE]
      ELSE [current_time |-> ntp.time, clock |-> ntp.time, syncs |-> 1, raised |-> FALSE]

\* TimeGate that refreshes _last_sync_time whenever the staleness test passes
TimeGate_refresh(st, now, available, ntp) ==
  IF ~st.time_ready
    THEN LET sa == IF BelowThreshold(now)
                     THEN SyncAttempt(now, available, ntp)
                     ELSE [current_time |-> now, clock |-> now, syncs |-> 0, raised |-> FALSE]
         IN IF sa.raised
              THEN [st |-> st, done |-> TRUE, raised |-> TRUE, ret |-> 0,
                    current_time |-> sa.current_time, clock |-> sa.clock, syncs |-> sa.syncs]
              ELSE IF BelowThreshold(sa.current_time)
                THEN [st |-> st, done |-> TRUE, raised |-> FALSE, ret |-> Q_ERR_TIME_NOT_READY,
                      current_time |-> sa.current_time, clock |-> sa.clock, syncs |-> sa.syncs]
                ELSE [st |-> [st EXCEPT !.time_ready = TRUE, !.last_sync_time = sa.current_time],
                      done |-> FALSE, raised |-> FALSE, ret |-> 0,
                      current_time |-> sa.current_time, clock |-> sa.clock, syncs |-> sa.syncs]
    ELSE IF IsStale(now, st.last_sync_time)
      THEN [st |-> [st EXCEPT !.time_ready = FALSE], done |-> TRUE, raised |-> FALSE,
            ret |-> Q_ERR_TIME_NOT_READY, current_time |-> now, clock |-> now, syncs |-> 0]
      ELSE [st |-> [st EXCEPT !.last_sync_time = now], done |-> FALSE, raised |-> FALSE, ret |-> 0,
            current_time |-> now, clock |-> now, syncs |-> 0]

\* TimeGate that leaves _time_ready set when the clock is stale: the next
\* call takes the staleness test again instead of the cold-start path
TimeGate_stuck(st, now, available, ntp) ==
  IF ~st.time_ready
    THEN LET sa == IF BelowThreshold(now)
                     THEN SyncAttempt(now, available, ntp)
                     ELSE [current_time |-> now, clock |-> now, syncs |-> 0, raised |-> FALSE]
         IN IF sa.raised
              THEN [st |-> st, done |-> TRUE, raised |-> TRUE, ret |-> 0,
                    current_time |-> sa.current_time, clock |-> sa.clock, syncs |-> sa.syncs]
              ELSE IF BelowThreshold(sa.current_time)
                THEN [st |-> st, done |-> TRUE, raised |-> FALSE, ret |-> Q_ERR_TIME_NOT_READY,
                      current_time |-> sa.current_time, clock |-> sa.clock, syncs |-> sa.syncs]
                ELSE [st |-> [st EXCEPT !.time_ready = TRUE, !.last_sync_time = sa.current_time],
                      done |-> FALSE, raised |-> FALSE, ret |-> 0,
                      current_time |-> sa.current_time, clock |-> sa.clock, syncs |-> sa.syncs]
    ELSE IF IsStale(now, st.last_sync_time)
      THEN [st |-> st, done |-> TRUE, raised |-> FALSE,
            ret |-> Q_ERR_TIME_NOT_READY, current_time |-> now, clock |-> now, syncs |-> 0]
      ELSE [st |-> st, done |-> FALSE, raised |-> FALSE, ret |-> 0,
            current_time |-> now, clock |-> now, syncs |-> 0]

\* Step 2: verify time synchronization
TimeGate(st, now, available, ntp) ==
  IF ~st.time_ready
    THEN LET sa == IF BelowThreshold(now)
                     THEN SyncAttempt(now, available, ntp)
                     ELSE [current_time |-> now, clock |-> now, syncs |-> 0, raised |-> FALSE]
         IN IF sa.raised
              THEN [st |-> st, done |-> TRUE, raised |-> TRUE, ret |-> 0,
                    current_time |-> sa.current_time, clock |-> sa.clock, syncs |-> sa.syncs]
              ELSE IF BelowThreshold(sa.current_time)
                THEN [st |-> st, done |-> TRUE, raised |-> FALSE, ret |-> Q_ERR_TIME_NOT_READY,
                      current_time |-> sa.current_time, clock |-> sa.clock, syncs |-> sa.syncs]
                ELSE [st |-> [st EXCEPT !.time_ready = TRUE, !.last_sync_time = sa.current_time],
                      done |-> FALSE, raised |-> FALSE, ret |-> 0,
                      current_time |-> sa.current_time, clock |-> sa.clock, syncs |-> sa.syncs]
    ELSE IF IsStale(now, st.last_sync_time)
      THEN [st |-> [st EXCEPT !.time_ready = FALSE], done |-> TRUE, raised |-> FALSE,
            ret |-> Q_ERR_TIME_NOT_READY, current_time |-> now, clock |-> now, syncs |-> 0]
      ELSE [st |-> st, done |-> FALSE, raised |-> FALSE, ret |-> 0,
            current_time |-> now, clock |-> now, syncs |-> 0]

\* IsEmpty without the test: the empty string is let through to the cache
\* comparison
IsEmpty_never(credentials) == FALSE

\* not credentials
IsEmpty(credentials) == Len(credentials) = 0

\* Changed without the comparison: the cache is taken to hold the argument
Changed_never(credentials, cached) == FALSE

\* Changed without the cache: every call parses
Changed_always(credentials, cached) == TRUE

\* credentials != Qrystal._cached_credentials
Changed(credentials, cached) == credentials # cached

\* BadDeviceId with the lower bound off by one (<= instead of <)
BadDeviceId_offByOne(device_id) == Len(device_id) <= MIN_DID_LEN \/ Len(device_id) > MAX_DID_LEN

\* len(device_id) < 10 or len(device_id) > 40
BadDeviceId(device_id) == Len(device_id) < MIN_DID_LEN \/ Len(device_id) > MAX_DID_LEN

\* BadToken with the bound off by one: a token of 4 characters passes
BadToken_offByOne(token) == Len(token) < MIN_TOKEN_LEN - 1

\* len(token) < 5
BadToken(token) == Len(token) < MIN_TOKEN_LEN

\* CredentialGate that stores the raw string and the device ID as soon as
\* they are split, before the lengths are tested
CredentialGate_cacheEarly(st, credentials) ==
  IF IsEmpty(credentials)
    THEN [st |-> st, done |-> TRUE, ret |-> Q_ERR_INVALID_CREDENTIALS, parsed |-> FALSE]
    ELSE IF ~Changed(credentials, st.cached_credentials)
      THEN [st |-> st, done |-> FALSE, ret |-> 0, parsed |-> FALSE]
      ELSE IF ~Contains(credentials, COLON)
        THEN [st |-> st, done |-> TRUE, ret |-> Q_ERR_INVALID_CREDENTIALS, parsed |-> TRUE]
        ELSE LET split_index == Index(credentials, COLON)
                 device_id == Prefix(credentials, split_index)
                 token == Suffix(credentials, split_index + 1)
                 early == [st EXCEPT !.cached_credentials = credentials,
                                     !.cached_device_id = device_id]
             IN IF split_index = 0
                  THEN [st |-> st, done |-> TRUE, ret |-> Q_ERR_INVALID_CREDENTIALS, parsed |-> TRUE]
                  ELSE IF BadDeviceId(device_id)
                    THEN [st |-> early, done |-> TRUE, ret |-> Q_ERR_INVALID_DID, parsed |-> TRUE]
                    ELSE IF BadToken(token)
                      THEN [st |-> early, done |-> TRUE, ret |-> Q_ERR_INVALID_TOKEN, parsed |-> TRUE]
                      ELSE [st |-> [early EXCEPT !.cached_token = token],
                            done |-> FALSE, ret |-> 0, parsed |-> TRUE]

\* Step 3: validate the credentials format, parse and cache them if changed
CredentialGate(st, credentials) ==
  IF IsEmpty(credentials)
    THEN [st |-> st, done |-> TRUE, ret |-> Q_ERR_INVALID_CREDENTIALS, parsed |-> FALSE]
    ELSE IF ~Changed(credentials, st.cached_credentials)
      THEN [st |-> st, done |-> FALSE, ret |-> 0, parsed |-> FALSE]
      ELSE IF ~Contains(credentials, COLON)
        THEN [st |-> st, done |-> TRUE, ret |-> Q_ERR_INVALID_CREDENTIALS, parsed |-> TRUE]
        ELSE LET split_index == Index(credentials, COLON)
                 device_id == Prefix(credentials, split_index)
                 token == Suffix(credentials, split_index + 1)
             IN IF split_index = 0
                  THEN [st |-> st, done |-> TRUE, ret |-> Q_ERR_INVALID_CREDENTIALS, parsed |-> TRUE]
                  ELSE IF BadDeviceId(device_id)
                    THEN [st |-> st, done |-> TRUE, ret |-> Q_ERR_INVALID_DID, parsed |-> TRUE]
                    ELSE IF BadToken(token)
                      THEN [st |-> st, done |-> TRUE, ret |-> Q_ERR_INVALID_TOKEN, parsed |-> TRUE]
                      ELSE [st |-> [st EXCEPT !.cached_credentials = credentials,
                                              !.cached_device_id = device_id,
                                              !.cached_token = token],
                            done |-> FALSE, ret |-> 0, parsed |-> TRUE]

\* MapStatus with the upper end of the band included (<= 300)
MapStatus_inclusive(status_code) ==
  IF HTTP_OK_LOW <= status_code /\ status_code <= HTTP_OK_HIGH THEN Q_OK ELSE Q_QRYSTAL_ERR

\* 200 <= status_code < 300
MapStatus(status_code) ==
  IF HTTP_OK_LOW <= status_code /\ status_code < HTTP_OK_HIGH THEN Q_OK ELSE Q_QRYSTAL_ERR

\* Transport with response.close() after the try block: its failure is
\* not caught
Transport_closeUnguarded(st, http) ==
  LET headers == [DID |-> st.cached_device_id,
                  Authorization |-> Str_Bearer \o st.cached_token]
  IN [requests |-> <<headers>>,
      raised |-> http.fault = "close",
      ret |-> IF http.fault # "none" THEN Q_HTTP_ERROR ELSE MapStatus(http.status_code)]

\* Transport that posts a second time when the first post raised
Transport_retry(st, http) ==
  LET headers == [DID |-> st.cached_device_id,
                  Authorization |-> Str_Bearer \o st.cached_token]
  IN [requests |-> IF http.fault = "post" THEN <<headers, headers>> ELSE <<headers>>,
      raised |-> FALSE,
      ret |-> IF http.fault # "none" THEN Q_HTTP_ERROR ELSE MapStatus(http.status_code)]

\* Step 4: send the HTTP request; post, the status_code read and close()
\* are inside one try block whose handler returns Q_HTTP_ERROR
Transport(st, http) ==
  LET headers == [DID |-> st.cached_device_id,
                  Authorization |-> Str_Bearer \o st.cached_token]
  IN [requests |-> <<headers>>,
      raised |-> FALSE,
      ret |-> IF http.fault # "none" THEN Q_HTTP_ERROR ELSE MapStatus(http.status_code)]

\* the record of one call: its argument, what it consumed, did and returned
\* (step: the step of the code at which it returned; reads: the values
\* time.time() gave it, in order; current_time: the last value it read)
Returned(st, now, credentials, pre, step, ret, raised, reads, current_time, syncs, ntp, parsed, requests, http) ==
  [st |-> st, clock |-> now,
   obs |-> [credentials |-> credentials, pre |-> pre,
            step |-> step, ret |-> ret, raised |-> raised,
            reads |-> reads, current_time |-> current_time,
            syncs |-> syncs, ntp |-> ntp, parsed |-> parsed,
            requests |-> requests, http |-> http]]

\* CredentialsAndTransport that puts the client state back as the call
\* found it when the heartbeat was not accepted
CredentialsAndTransport_rollback(pre, tg, reads, used, credentials, http) ==
  LET cg == CredentialGate(tg.st, credentials)
  IN IF cg.done
       THEN Returned(cg.st, tg.clock, credentials, pre, 3, cg.ret, FALSE, reads,
                     tg.current_time, tg.syncs, used, cg.parsed, <<>>, NoHttp)
       ELSE
         LET tr == Transport(cg.st, http)
         IN Returned(IF tr.ret = Q_OK THEN cg.st ELSE pre, tg.clock, credentials, pre, 4,
                     tr.ret, tr.raised, reads,
                     tg.current_time, tg.syncs, used, cg.parsed, tr.requests, http)

\* Steps 3 and 4, entered when the time gate `tg` let the call through
CredentialsAndTransport(pre, tg, reads, used, credentials, http) ==
  LET cg == CredentialGate(tg.st, credentials)
  IN IF cg.done
       THEN Returned(cg.st, tg.clock, credentials, pre, 3, cg.ret, FALSE, reads,
                     tg.current_time, tg.syncs, used, cg.parsed, <<>>, NoHttp)
       ELSE
         LET tr == Transport(cg.st, http)
         IN Returned(cg.st, tg.clock, credentials, pre, 4, tr.ret, tr.raised, reads,
                     tg.current_time, tg.syncs, used, cg.parsed, tr.requests, http)

\* the clock values the time gate read (the second after a sync that did
\* not raise), and the sync behaviour it met
ClockReads(now, tg, ntp) ==
  IF tg.syncs > 0 /\ ~ntp.fault THEN <<now, tg.current_time>> ELSE <<now>>
NtpUsed(tg, ntp) == IF tg.syncs > 0 THEN ntp ELSE NoNtp

\* uplink_blocking with Step 2 moved before Step 1: the clock is judged
\* before the WiFi link is
uplink_blocking_timeFirst(st, isconnected, now, available, credentials, ntp, http) ==
  LET tg == TimeGate(st, now, available, ntp)
  IN IF tg.done
       THEN Returned(tg.st, tg.clock, credentials, st, 2, tg.ret, tg.raised,
                     ClockReads(now, tg, ntp), tg.current_time, tg.syncs, NtpUsed(tg, ntp),
                     FALSE, <<>>, NoHttp)
       ELSE IF ~isconnected
         THEN Returned(tg.st, tg.clock, credentials, st, 1, Q_ERR_NO_WIFI, FALSE,
                       ClockReads(now, tg, ntp), tg.current_time, tg.syncs, NtpUsed(tg, ntp),
                       FALSE, <<>>, NoHttp)
         ELSE CredentialsAndTransport(st, tg, ClockReads(now, tg, ntp), NtpUsed(tg, ntp),
                                      credentials, http)

uplink_blocking(st, isconnected, now, available, credentials, ntp, http) ==
  IF ~isconnected
    THEN Returned(st, now, credentials, st, 1, Q_ERR_NO_WIFI, FALSE, <<>>, 0, 0, NoNtp, FALSE, <<>>, NoHttp)
    ELSE
      LET tg == TimeGate(st, now, available, ntp)
      IN IF tg.done
           THEN Returned(tg.st, tg.clock, credentials, st, 2, tg.ret, tg.raised,
                         ClockReads(now, tg, ntp), tg.current_time, tg.syncs, NtpUsed(tg, ntp),
                         FALSE, <<>>, NoHttp)
           ELSE CredentialsAndTransport(st, tg, ClockReads(now, tg, ntp), NtpUsed(tg, ntp),
                                        credentials, http)

---------------------------------------------------------------------------
(* The state machine *)

NoCall ==
  [credentials |-> <<>>,
   pre |-> [time_ready |-> FALSE, last_sync_time |-> 0, cached_credentials |-> <<>>,
            cached_device_id |-> <<>>, cached_token |-> <<>>],
   step |-> 0, ret |-> 0, raised |-> FALSE, reads |-> <<>>, current_time |-> 0,
   syncs |-> 0, ntp |-> NoNtp, parsed |-> FALSE, requests |-> <<>>, http |-> NoHttp]

\* two threads that call uplink_blocking on the same class
Threads == {1, 2}

\* a thread outside uplink_blocking: no locals, nothing returned
ThreadIdle ==
  [pc |-> "idle", device_id |-> << >>, token |-> << >>,
   DID |-> << >>, Bearer |-> << >>, requests |-> << >>, ret |-> 0]

\* no thread has called yet
NoThreads == [thread |-> [t \in Threads |-> ThreadIdle], interleaved |-> FALSE]

Init ==
  /\ _time_ready = FALSE
  /\ _last_sync_time = 0
  /\ _cached_credentials = <<>>
  /\ _cached_device_id = <<>>
  /\ _cached_token = <<>>
  /\ connected \in BOOLEAN
  /\ clock \in ClockValues
  /\ ntp_available \in BOOLEAN
  /\ pc = "idle"
  /\ call = NoCall
  /\ healthy = FALSE
  /\ conc = NoThreads

\* the collaborators answer only when the call asks them: ntptime.settime()
\* behaves in some way only in a call that invokes it, requests.post only
\* in a call that posts
SyncAsked(st, isconnected, now, available, credentials) ==
  uplink_blocking(st, isconnected, now, available, credentials, NoNtp, NoHttp).obs.syncs > 0

PostAsked(st, isconnected, now, available, credentials, ntp) ==
  Len(uplink_blocking(st, isconnected, now, available, credentials, ntp, NoHttp).obs.requests) > 0

NtpInputs(credentials) ==
  IF SyncAsked(State, connected, clock, ntp_available, credentials)
    THEN NtpBehaviours ELSE {NoNtp}

HttpInputs(credentials, ntp) ==
  IF PostAsked(State, connected, clock, ntp_available, credentials, ntp)
    THEN HttpBehaviours ELSE {NoHttp}

\* status = Qrystal.uplink_blocking(DEVICE_CREDENTIALS), for any argument
\* and any behaviour of the time sync and of the transport
Uplink ==
  /\ pc = "idle"
  /\ \E credentials \in CredentialInputs :
       \E ntp \in NtpInputs(credentials) :
         \E http \in HttpInputs(credentials, ntp) :
           LET r == uplink_blocking(State, connected, clock, ntp_available, credentials, ntp, http)
           IN /\ _time_ready' = r.st.time_ready
              /\ _last_sync_time' = r.st.last_sync_time
              /\ _cached_credentials' = r.st.cached_credentials
              /\ _cached_device_id' = r.st.cached_device_id
              /\ _cached_token' = r.st.cached_token
              /\ clock' = r.clock
              /\ call' = r.obs
              /\ pc' = IF r.obs.raised THEN "crashed" ELSE "returned"
  /\ UNCHANGED <<connected, ntp_available, healthy, conc>>

\* time.sleep(HEARTBEAT_INTERVAL): the caller leaves the call behind
Sleep ==
  /\ pc = "returned"
  /\ pc' = "idle"
  /\ call' = NoCall
  /\ UNCHANGED <<_time_ready, _last_sync_time, _cached_credentials, _cached_device_id,
                 _cached_token, connected, clock, ntp_available, healthy, conc>>

\* the clock moves between two calls: it advances, or is set (also backward)
ClockChange ==
  /\ pc = "idle"
  /\ \E t \in ClockValues : t # clock /\ clock' = t
  /\ UNCHANGED <<_time_ready, _last_sync_time, _cached_credentials, _cached_device_id,
                 _cached_token, connected, ntp_available, pc, call, healthy, conc>>

\* the WiFi link comes up or goes down between two calls
WifiChange ==
  /\ pc = "idle"
  /\ connected' = ~connected
  /\ UNCHANGED <<_time_ready, _last_sync_time, _cached_credentials, _cached_device_id,
                 _cached_token, clock, ntp_available, pc, call, healthy, conc>>

Next == Uplink \/ Sleep \/ ClockChange \/ WifiChange

Spec == Init /\ [][Next]_vars

---------------------------------------------------------------------------
(* The healthy caller loop: from some point on the link is up, the clock  *)
(* is valid and never goes back, the loop passes valid credentials and     *)
(* the server answers 2xx. Until that point calls of any kind are made and *)
(* the clock and the link change in any way.                               *)

ValidCredentialInputs ==
  {c \in CredentialInputs :
     /\ Contains(c, COLON) /\ Index(c, COLON) > 0
     /\ ~BadDeviceId(Prefix(c, Index(c, COLON)))
     /\ ~BadToken(Suffix(c, Index(c, COLON) + 1))}

AcceptedResponses ==
  {h \in HttpBehaviours : h.fault = "none" /\ MapStatus(h.status_code) = Q_OK}

\* the healthy conditions set in, between two calls
BecomeHealthy ==
  /\ ~healthy
  /\ pc = "idle"
  /\ connected
  /\ ~BelowThreshold(clock)
  /\ healthy' = TRUE
  /\ UNCHANGED <<_time_ready, _last_sync_time, _cached_credentials, _cached_device_id,
                 _cached_token, connected, clock, ntp_available, pc, call, conc>>

\* status = Qrystal.uplink_blocking(DEVICE_CREDENTIALS) in the healthy loop
HealthyUplink ==
  /\ healthy
  /\ pc = "idle"
  /\ \E credentials \in ValidCredentialInputs :
       \E ntp \in NtpInputs(credentials) :
         \E http \in (IF HttpInputs(credentials, ntp) = {NoHttp}
                        THEN {NoHttp} ELSE AcceptedResponses) :
           LET r == uplink_blocking(State, connected, clock, ntp_available, credentials, ntp, http)
           IN /\ call' = r.obs
              /\ pc' = IF r.obs.raised THEN "crashed" ELSE "returned"
              /\ _time_ready' = r.st.time_ready
              /\ _last_sync_time' = r.st.last_sync_time
              /\ _cached_credentials' = r.st.cached_credentials
              /\ _cached_device_id' = r.st.cached_device_id
              /\ _cached_token' = r.st.cached_token
              /\ clock' = r.clock
  /\ UNCHANGED <<connected, ntp_available, healthy, conc>>

\* time.sleep(HEARTBEAT_INTERVAL) in the healthy loop; of the call, the
\* loop keeps the status it returned (`status`) until the next call
HealthySleep ==
  /\ healthy
  /\ pc = "returned"
  /\ pc' = "idle"
  /\ call' = [NoCall EXCEPT !.step = call.step, !.ret = call.ret]
  /\ UNCHANGED <<_time_ready, _last_sync_time, _cached_credentials, _cached_device_id,
                 _cached_token, connected, clock, ntp_available, healthy, conc>>

\* the clock advances between two calls of the healthy loop (time passes,
\* or sync_time() sets it forward after TIME_NOT_READY)
HealthyClock ==
  /\ healthy
  /\ pc = "idle"
  /\ \E t \in ClockValues : t > clock /\ clock' = t
  /\ UNCHANGED <<_time_ready, _last_sync_time, _cached_credentials, _cached_device_id,
                 _cached_token, connected, ntp_available, pc, call, healthy, conc>>

\* a whole pass of the loop before the healthy conditions set in: the call,
\* for any argument and any behaviour of the collaborators, and the sleep
\* after it; nothing of that call is looked at later
EarlierPass ==
  /\ pc = "idle"
  /\ \E credentials \in CredentialInputs :
       \E ntp \in NtpInputs(credentials) :
         \E http \in HttpInputs(credentials, ntp) :
           LET r == uplink_blocking(State, connected, clock, ntp_available, credentials, ntp, http)
           IN /\ _time_ready' = r.st.time_ready
              /\ _last_sync_time' = r.st.last_sync_time
              /\ _cached_credentials' = r.st.cached_credentials
              /\ _cached_device_id' = r.st.cached_device_id
              /\ _cached_token' = r.st.cached_token
              /\ clock' = r.clock
              /\ pc' = IF r.obs.raised THEN "crashed" ELSE "idle"
  /\ UNCHANGED <<connected, ntp_available, call, healthy, conc>>

Unhealthy == ~healthy /\ (EarlierPass \/ ClockChange \/ WifiChange)

NextHealthy == Unhealthy \/ BecomeHealthy \/ HealthyUplink \/ HealthySleep \/ HealthyClock

\* the call made by the healthy loop ends (uplink_blocking has no loop)
CallReturns == healthy /\ pc = "idle" /\ pc' \in {"returned", "crashed"}

\* time.sleep(HEARTBEAT_INTERVAL) ends
SleepEnds == healthy /\ pc = "returned" /\ pc' = "idle"

\* the loop of main() never stops calling: `while True`
SpecHealthy ==
  /\ Init
  /\ [][NextHealthy]_vars
  /\ WF_pc(CallReturns)
  /\ WF_pc(SleepEnds)

---------------------------------------------------------------------------
(* Two threads in uplink_blocking on the shared class attributes, without  *)
(* a lock.  Steps 1 and 2 of a call are taken as one step; from the cache   *)
(* comparison on, every read and every write of a class attribute is a     *)
(* step of its own, which is what the interpreter may interleave.          *)

\* the credentials argument of each thread: two different valid strings
ThreadCredentials(t) ==
  IF t = 1 THEN Cred(MIN_DID_LEN, MIN_TOKEN_LEN)
           ELSE Cred(MAX_DID_LEN, MIN_TOKEN_LEN + MaxTokExtra)

\* thread t is between its entry and its return
Inside(t) == conc.thread[t].pc \notin {"idle", "returned"}

\* thread t moves to position p with the locals given in l
Goto(t, l) == conc' = [conc EXCEPT !.thread[t] = l]

\* thread t returns status ret
ReturnFrom(t, ret) ==
  [conc.thread[t] EXCEPT !.pc = "returned", !.ret = ret]

\* Steps 1 and 2: the connectivity probe and the time gate
Enter(t) ==
  /\ conc.thread[t].pc = "idle"
  /\ \E ntp \in (IF connected /\ TimeGate(State, clock, ntp_available, NoNtp).syncs > 0
                   THEN NtpBehaviours ELSE {NoNtp}) :
       LET tg == TimeGate(State, clock, ntp_available, ntp)
           l == IF ~connected THEN ReturnFrom(t, Q_ERR_NO_WIFI)
                ELSE IF tg.done THEN ReturnFrom(t, tg.ret)
                ELSE [conc.thread[t] EXCEPT !.pc = "compare"]
       IN /\ conc' = [conc EXCEPT !.thread[t] = l,
                                  !.interleaved = @ \/ \E u \in Threads \ {t} : Inside(u)]
          /\ _time_ready' = IF connected THEN tg.st.time_ready ELSE _time_ready
          /\ _last_sync_time' = IF connected THEN tg.st.last_sync_time ELSE _last_sync_time
          /\ clock' = IF connected THEN tg.clock ELSE clock
  /\ UNCHANGED <<_cached_credentials, _cached_device_id, _cached_token,
                 connected, ntp_available, pc, call, healthy>>

\* `not credentials`, `credentials != Qrystal._cached_credentials` and, when
\* they differ, the parsing into the locals device_id and token
CompareWithCache(t) ==
  /\ conc.thread[t].pc = "compare"
  /\ LET cg == CredentialGate(State, ThreadCredentials(t))
     IN Goto(t, IF cg.done THEN ReturnFrom(t, cg.ret)
                ELSE IF cg.parsed
                  THEN [conc.thread[t] EXCEPT !.pc = "store_credentials",
                                              !.device_id = cg.st.cached_device_id,
                                              !.token = cg.st.cached_token]
                  ELSE [conc.thread[t] EXCEPT !.pc = "read_device_id"])
  /\ UNCHANGED <<_time_ready, _last_sync_time, _cached_credentials, _cached_device_id,
                 _cached_token, connected, clock, ntp_available, pc, call, healthy>>

\* Qrystal._cached_credentials = credentials
StoreCredentials(t) ==
  /\ conc.thread[t].pc = "store_credentials"
  /\ _cached_credentials' = ThreadCredentials(t)
  /\ Goto(t, [conc.thread[t] EXCEPT !.pc = "store_device_id"])
  /\ UNCHANGED <<_time_ready, _last_sync_time, _cached_device_id,
                 _cached_token, connected, clock, ntp_available, pc, call, healthy>>

\* Qrystal._cached_device_id = device_id
StoreDeviceId(t) ==
  /\ conc.thread[t].pc = "store_device_id"
  /\ _cached_device_id' = conc.thread[t].device_id
  /\ Goto(t, [conc.thread[t] EXCEPT !.pc = "store_token"])
  /\ UNCHANGED <<_time_ready, _last_sync_time, _cached_credentials,
                 _cached_token, connected, clock, ntp_available, pc, call, healthy>>

\* Qrystal._cached_token = token
StoreToken(t) ==
  /\ conc.thread[t].pc = "store_token"
  /\ _cached_token' = conc.thread[t].token
  /\ Goto(t, [conc.thread[t] EXCEPT !.pc = "read_device_id"])
  /\ UNCHANGED <<_time_ready, _last_sync_time, _cached_credentials,
                 _cached_device_id, connected, clock, ntp_available, pc, call, healthy>>

\* "DID": Qrystal._cached_device_id
ReadDeviceId(t) ==
  /\ conc.thread[t].pc = "read_device_id"
  /\ Goto(t, [conc.thread[t] EXCEPT !.pc = "read_token", !.DID = _cached_device_id])
  /\ UNCHANGED <<_time_ready, _last_sync_time, _cached_credentials, _cached_device_id,
                 _cached_token, connected, clock, ntp_available, pc, call, healthy>>

\* "Authorization": "Bearer " + Qrystal._cached_token
ReadToken(t) ==
  /\ conc.thread[t].pc = "read_token"
  /\ Goto(t, [conc.thread[t] EXCEPT !.pc = "post", !.Bearer = _cached_token])
  /\ UNCHANGED <<_time_ready, _last_sync_time, _cached_credentials, _cached_device_id,
                 _cached_token, connected, clock, ntp_available, pc, call, healthy>>

\* Step 4 with the headers this thread has built
Post(t) ==
  /\ conc.thread[t].pc = "post"
  /\ \E http \in HttpBehaviours :
       LET tr == Transport([cached_device_id |-> conc.thread[t].DID,
                            cached_token |-> conc.thread[t].Bearer], http)
       IN Goto(t, [ReturnFrom(t, tr.ret) EXCEPT !.requests = tr.requests])
  /\ UNCHANGED <<_time_ready, _last_sync_time, _cached_credentials, _cached_device_id,
                 _cached_token, connected, clock, ntp_available, pc, call, healthy>>

\* the caller of thread t goes on; its next call starts with fresh locals
Leave(t) ==
  /\ conc.thread[t].pc = "returned"
  /\ Goto(t, ThreadIdle)
  /\ UNCHANGED <<_time_ready, _last_sync_time, _cached_credentials, _cached_device_id,
                 _cached_token, connected, clock, ntp_available, pc, call, healthy>>

Thread(t) ==
  \/ Enter(t)
  \/ CompareWithCache(t)
  \/ StoreCredentials(t)
  \/ StoreDeviceId(t)
  \/ StoreToken(t)
  \/ ReadDeviceId(t)
  \/ ReadToken(t)
  \/ Post(t)
  \/ Leave(t)

\* the clock and the link change while no thread is inside a call
Between == (\A t \in Threads : conc.thread[t].pc = "idle") /\ (ClockChange \/ WifiChange)

NextConc == (\E t \in Threads : Thread(t)) \/ Between

SpecConc == Init /\ [][NextConc]_vars

---------------------------------------------------------------------------
(* Properties of a call, stated on the record of the call that has just   *)
(* returned                                                                *)

\* a call of uplink_blocking has just ended
Called == pc # "idle"

\* the client state before and after the call
CacheBefore == <<call.pre.cached_credentials, call.pre.cached_device_id, call.pre.cached_token>>
CacheNow == <<_cached_credentials, _cached_device_id, _cached_token>>

\* the time gate as the specification states it, on the state the call
\* found and the last clock value it read
TimeGatePasses ==
  IF call.pre.time_ready
    THEN /\ call.pre.last_sync_time <= call.current_time
         /\ call.current_time <= call.pre.last_sync_time + 86400
    ELSE call.current_time >= _YEAR_2026_EPOCH

\* C1: the call returns the status of the earliest failing gate: not
\* connected gives NO_NETWORK (2) whatever the clock, the time state and the
\* credentials are; connected with a failing time gate gives TIME_NOT_READY
\* (3) whatever the credentials are; a credentials status (4, 5, 6) is
\* returned only by a call in which connectivity and time both passed.
C1_EarliestGateWins ==
  Called =>
    /\ ~connected => call.ret = 2 /\ ~call.raised
    /\ connected /\ ~TimeGatePasses => call.ret = 3 /\ ~call.raised
    /\ call.ret \in {4, 5, 6} /\ ~call.raised => connected /\ TimeGatePasses

\* a call made with no link, an unready clock below the threshold and the
\* empty credentials string at once, which returned NO_NETWORK
C1_Witness ==
  /\ Called /\ ~connected
  /\ ~call.pre.time_ready /\ clock < _YEAR_2026_EPOCH
  /\ call.credentials = <<>>
  /\ call.ret = 2

\* the position (from 1) of the first ':' of s, 0 when s has none
FirstColon(s) ==
  IF \E i \in 1..Len(s) : s[i] = ":"
    THEN CHOOSE i \in 1..Len(s) : s[i] = ":" /\ \A j \in 1..(i - 1) : s[j] # ":"
    ELSE 0

\* the reference validation of C2: the status it rejects s with, 0 when s
\* passes
C2_Reference(s) ==
  IF Len(s) = 0 \/ FirstColon(s) = 0 \/ FirstColon(s) = 1 THEN 4
  ELSE IF FirstColon(s) - 1 < 10 \/ FirstColon(s) - 1 > 40 THEN 5
  ELSE IF Len(s) - FirstColon(s) < 5 THEN 6
  ELSE 0

\* C2: once connectivity and time have passed, a string that differs from
\* the cached raw string is validated as the reference says: it is rejected
\* with the reference's status and nothing is sent, or it passes and the
\* call goes on to the transport step.
C2_ValidationMatchesReference ==
  Called /\ connected /\ TimeGatePasses /\ call.credentials # call.pre.cached_credentials =>
    IF C2_Reference(call.credentials) = 0
      THEN call.step = 4 /\ call.ret \notin {4, 5, 6}
      ELSE call.step = 3 /\ call.ret = C2_Reference(call.credentials) /\ ~call.raised

\* a device ID of 9 characters with a token of 4: the device ID is judged first
C2_Witness ==
  /\ Called /\ connected /\ TimeGatePasses
  /\ call.credentials = Rep("a", 9) \o <<":">> \o Rep("b", 4)
  /\ call.ret = 5

\* C3: with timeReady true and the link up, a clock reading before
\* lastGoodTime or more than 86400 s after it returns TIME_NOT_READY (3),
\* clears timeReady and sends nothing; a reading within
\* [lastGoodTime, lastGoodTime + 86400] passes and leaves timeReady true.
C3_StalenessAndRollback ==
  Called /\ connected /\ call.pre.time_ready =>
    IF call.current_time < call.pre.last_sync_time
         \/ call.current_time - call.pre.last_sync_time > 86400
      THEN call.ret = 3 /\ ~call.raised /\ ~_time_ready /\ call.requests = <<>>
      ELSE call.step >= 3 /\ _time_ready

\* a call that read the clock exactly 86400 s after lastGoodTime and went
\* on to post
C3_Witness ==
  /\ Called /\ connected /\ call.pre.time_ready
  /\ call.current_time = call.pre.last_sync_time + 86400
  /\ call.step = 4 /\ _time_ready

\* a step that is one call of uplink_blocking
IsCall == pc = "idle" /\ pc' # "idle"

\* C4: cold start. A call made with the link up and timeReady false whose
\* last clock reading (after the optional sync) is below THRESHOLD_EPOCH
\* returns TIME_NOT_READY (3) and leaves the client state as it was; one
\* whose last reading is >= THRESHOLD_EPOCH sets timeReady and lastGoodTime
\* to that reading; and timeReady turns true in no other step.
C4_ColdStart ==
  [][/\ IsCall /\ connected /\ ~_time_ready =>
          /\ call'.current_time = clock'
          /\ IF call'.current_time < _YEAR_2026_EPOCH
               THEN call'.ret = 3 /\ ~call'.raised /\ State' = State
               ELSE _time_ready' /\ _last_sync_time' = call'.current_time
     /\ ~_time_ready /\ _time_ready' =>
          /\ IsCall /\ connected
          /\ call'.current_time >= _YEAR_2026_EPOCH
          /\ _last_sync_time' = call'.current_time]_vars

\* a cold call that synced, read exactly THRESHOLD_EPOCH and became ready
C4_Witness ==
  /\ Called /\ connected /\ ~call.pre.time_ready
  /\ call.syncs = 1 /\ ~call.ntp.fault
  /\ call.current_time = _YEAR_2026_EPOCH
  /\ _time_ready /\ _last_sync_time = _YEAR_2026_EPOCH

\* C5: a call that reaches the transport step returns OK (0) exactly when
\* the response was received with 200 <= status < 300, SERVER_ERROR (1) for
\* a response with any other status, TRANSPORT_ERROR (7) when the transport
\* raised (on the post, or while the response was read or closed), and
\* nothing else.
C5_HttpOutcomeMapping ==
  Called /\ call.step = 4 =>
    /\ ~call.raised
    /\ call.ret \in {0, 1, 7}
    /\ IF call.http.fault = "none"
         THEN /\ call.ret = 0 <=> (200 <= call.http.status_code /\ call.http.status_code < 300)
              /\ call.ret = 1 <=> ~(200 <= call.http.status_code /\ call.http.status_code < 300)
         ELSE call.ret = 7

\* a response with status 300, just outside the band, mapped to SERVER_ERROR
C5_Witness ==
  /\ Called /\ call.step = 4
  /\ call.http.fault = "none" /\ call.http.status_code = 300
  /\ call.ret = 1

\* C6: every call returns normally with one of the status codes 0..7,
\* whatever the collaborators do: no exception leaves uplink_blocking.
C6_AlwaysReturnsStatus ==
  Called => ~call.raised /\ pc = "returned" /\ call.ret \in 0..7

\* a call whose response raised in close() after a 200, and one whose time
\* sync raised: both returned a status
C6_Witness ==
  /\ Called /\ pc = "returned"
  /\ \/ call.http.fault = "close" /\ call.http.status_code = 200 /\ call.ret = 7
     \/ call.syncs = 1 /\ call.ntp.fault /\ call.ret = 3

\* the credentials gate as the specification states it: the argument is
\* the cached raw string (and not empty), or it passes the validation
CredentialsPass ==
  /\ call.credentials # <<>>
  /\ call.credentials = call.pre.cached_credentials \/ C2_Reference(call.credentials) = 0

\* C7: a call that passes connectivity, time and credentials posts exactly
\* once, also when the post fails or is answered outside 2xx; a call that
\* returns 2, 3, 4, 5 or 6 posts nothing.
C7_PostOnceOrNever ==
  Called =>
    /\ connected /\ TimeGatePasses /\ CredentialsPass => Len(call.requests) = 1
    /\ call.ret \in {2, 3, 4, 5, 6} => Len(call.requests) = 0

\* a call whose post raised: one request, no second attempt
C7_Witness ==
  /\ Called /\ connected /\ TimeGatePasses /\ CredentialsPass
  /\ call.http.fault = "post" /\ call.ret = 7
  /\ Len(call.requests) = 1

\* the cache holds nothing, or a raw string with the two parts it splits
\* into at a ':' that the device ID does not contain, of valid lengths
CacheWellFormed ==
  \/ CacheNow = <<(<<>>), (<<>>), (<<>>)>>
  \/ /\ _cached_credentials = _cached_device_id \o <<":">> \o _cached_token
     /\ \A i \in 1..Len(_cached_device_id) : _cached_device_id[i] # ":"
     /\ Len(_cached_device_id) >= 10 /\ Len(_cached_device_id) <= 40
     /\ Len(_cached_token) >= 5

\* C8: the credential cache is written only after full validation: a call
\* that returns 4, 5 or 6 leaves the three cached strings as they were,
\* and in every state the cache is empty or well formed.
C8_CacheCommittedAtomically ==
  /\ CacheWellFormed
  /\ Called /\ call.ret \in {4, 5, 6} => CacheNow = CacheBefore

\* a rejected string (token too short) offered to a client that holds
\* other, valid credentials in its cache
C8_Witness ==
  /\ Called /\ call.ret = 6
  /\ call.pre.cached_credentials # <<>>
  /\ CacheNow = CacheBefore /\ CacheWellFormed

\* C9: every request carries, as device-ID header, the part of this call's
\* credentials argument before its first ':' and, as Authorization header,
\* 'Bearer ' followed by the part after it; after the call the cache holds
\* those two parts. No request carries stale or empty credentials.
C9_HeadersFromThisCallsCredentials ==
  Called /\ (call.step = 4 \/ call.requests # <<>>) =>
    /\ call.requests # <<>>
    /\ FirstColon(call.credentials) > 1
    /\ LET c == call.credentials
           did == SubSeq(c, 1, FirstColon(c) - 1)
           tok == SubSeq(c, FirstColon(c) + 1, Len(c))
       IN /\ \A i \in 1..Len(call.requests) :
               /\ call.requests[i].DID = did
               /\ call.requests[i].Authorization = <<"B", "e", "a", "r", "e", "r", " ">> \o tok
          /\ _cached_device_id = did
          /\ _cached_token = tok
          /\ did # <<>> /\ tok # <<>>

\* a request sent for credentials that replaced other cached credentials
C9_Witness ==
  /\ Called /\ call.requests # <<>>
  /\ call.pre.cached_credentials # <<>>
  /\ call.pre.cached_credentials # call.credentials
  /\ call.requests[1].DID # call.pre.cached_device_id

\* C10: a call whose argument equals the cached raw string (once the link
\* and the time gate have passed) neither parses nor validates, leaves the
\* three cached strings unchanged and sends the cached device ID and token;
\* and a call that reaches the transport step leaves its argument as the
\* cached raw string, so that the same string is a cache hit next time.
C10_CacheHitSkipsValidation ==
  Called =>
    /\ /\ connected /\ TimeGatePasses
       /\ call.credentials # <<>> /\ call.credentials = call.pre.cached_credentials
       => /\ ~call.parsed
          /\ CacheNow = CacheBefore
          /\ call.requests =
               <<[DID |-> call.pre.cached_device_id,
                  Authorization |-> <<"B", "e", "a", "r", "e", "r", " ">> \o call.pre.cached_token]>>
    /\ call.step = 4 => _cached_credentials = call.credentials

\* a second call with the string the cache already holds: no parsing, one
\* request
C10_Witness ==
  /\ Called /\ call.step = 4 /\ ~call.parsed
  /\ call.credentials = call.pre.cached_credentials
  /\ Len(call.requests) = 1

\* the credentials argument of the call fails the validation
Malformed == C2_Reference(call.credentials) # 0

\* C11 as stated: a call whose credentials argument fails validation has
\* performed no network I/O when it returns, neither the HTTPS POST nor
\* the network time sync.
C11_NoNetworkIO_AsStated ==
  Called /\ Malformed => call.requests = <<>> /\ call.syncs = 0

\* C11 as amended: a call whose credentials argument fails validation has
\* sent no HTTPS request when it returns; it may have run the network time
\* sync, once, and only when it was entered with the link up, timeReady
\* false, the sync capability present and a first clock reading below
\* THRESHOLD_EPOCH.
C11_NoPostForMalformedInput ==
  Called /\ Malformed =>
    /\ call.requests = <<>>
    /\ call.http = NoHttp
    /\ call.syncs <= 1
    /\ call.syncs = 1 =>
         /\ connected /\ ntp_available /\ ~call.pre.time_ready
         /\ call.reads # <<>> /\ call.reads[1] < _YEAR_2026_EPOCH

\* a call with a malformed argument that synced the clock over the network
\* before it rejected the argument
C11_Witness ==
  /\ Called /\ Malformed
  /\ call.syncs = 1 /\ ~call.ntp.fault
  /\ call.ret \in {4, 5, 6}
  /\ call.requests = <<>>

\* the number of ':' in s
Colons(s) == Cardinality({i \in 1..Len(s) : s[i] = ":"})

\* C12 as stated: a credentials string that passes validation (and reaches
\* the transport step) has exactly one ':', not at index 0, a device ID of
\* 10..40 characters and a token of at least 5.
C12_ExactlyOneSeparator_AsStated ==
  Called /\ call.step = 4 =>
    /\ Colons(call.credentials) = 1
    /\ call.credentials[1] # ":"
    /\ Len(_cached_device_id) \in 10..40
    /\ Len(_cached_token) >= 5

\* C12 as amended: a credentials string that passes validation has at
\* least one ':', the first of them not at index 0; the device ID is the
\* part before the first ':' (10..40 characters, no ':'), the token is all
\* that follows it (at least 5 characters) and may itself contain ':'.
C12_FirstSeparatorSplits ==
  Called /\ call.step = 4 =>
    /\ Colons(call.credentials) >= 1
    /\ call.credentials[1] # ":"
    /\ call.credentials = _cached_device_id \o <<":">> \o _cached_token
    /\ Colons(_cached_device_id) = 0
    /\ Len(_cached_device_id) \in 10..40
    /\ Len(_cached_token) >= 5
    /\ Colons(call.credentials) = 1 + Colons(_cached_token)

\* a string with two ':' that was accepted and posted: the second ':' is
\* part of the token
C12_Witness ==
  /\ Called /\ call.step = 4
  /\ Colons(call.credentials) = 2
  /\ Colons(_cached_token) = 1
  /\ call.requests # <<>>

\* C14: a call that returns NO_NETWORK (the call made while the link is
\* down) changes nothing: the five fields of the client state and the
\* clock keep their values, the clock is not read, no time sync is
\* triggered and no request is sent, whatever the time state is.
C14_NoNetworkChangesNothing ==
  [][IsCall /\ (~connected \/ call'.ret = 2) =>
       /\ ~connected /\ call'.ret = 2 /\ ~call'.raised
       /\ State' = State
       /\ clock' = clock
       /\ call'.reads = <<>> /\ call'.syncs = 0 /\ call'.requests = <<>>]_vars

\* a call without link made while timeReady was true and the clock had
\* been set back before lastGoodTime: NO_NETWORK, timeReady still true
C14_Witness ==
  /\ Called /\ ~connected /\ call.ret = 2
  /\ call.pre.time_ready /\ clock < call.pre.last_sync_time
  /\ _time_ready /\ State = call.pre

\* C15: lastGoodTime changes only in a call entered with the link up and
\* timeReady false that reads a clock >= THRESHOLD_EPOCH, which stores that
\* reading; a call entered with timeReady true never changes it, whether
\* it passes the staleness test or fails it.
C15_LastGoodTimeOnlyOnColdStart ==
  [][/\ _last_sync_time' # _last_sync_time =>
          /\ IsCall /\ connected /\ ~_time_ready
          /\ call'.current_time >= _YEAR_2026_EPOCH
          /\ _last_sync_time' = call'.current_time
     /\ IsCall /\ _time_ready => _last_sync_time' = _last_sync_time]_vars

\* a heartbeat accepted at a clock value later than lastGoodTime, which
\* kept its older value
C15_Witness ==
  /\ Called /\ call.pre.time_ready /\ call.ret = 0
  /\ call.current_time > call.pre.last_sync_time
  /\ _last_sync_time = call.pre.last_sync_time

\* C16: the time sync runs at most once in a call, and only in a call
\* entered with the link up, timeReady false, the sync capability present
\* and a first clock reading below THRESHOLD_EPOCH (so never in the
\* staleness branch); a sync that raises is swallowed: the call keeps the
\* value it read before, returns TIME_NOT_READY and changes nothing.
C16_SingleBestEffortSync ==
  Called =>
    /\ call.syncs \in {0, 1}
    /\ call.syncs = 1 =>
         /\ connected /\ ntp_available /\ ~call.pre.time_ready
         /\ call.reads # <<>> /\ call.reads[1] < _YEAR_2026_EPOCH
    /\ call.syncs = 1 /\ call.ntp.fault =>
         /\ ~call.raised /\ pc = "returned"
         /\ call.ret = 3
         /\ call.reads = <<call.current_time>>
         /\ clock = call.current_time
         /\ State = call.pre

\* a cold call whose time sync raised and that returned TIME_NOT_READY
C16_Witness ==
  /\ Called /\ call.syncs = 1 /\ call.ntp.fault
  /\ call.ret = 3 /\ ~_time_ready

\* C17: what the earlier gates committed survives a later failure of the
\* same call. After TRANSPORT_ERROR or SERVER_ERROR timeReady is true,
\* lastGoodTime is the value the call found or set, and the cache holds the
\* credentials of this call; after a credentials status returned by a call
\* that went through the cold start, timeReady is true, lastGoodTime is the
\* reading of that call and the cache is as it was.
C17_EarlierGatesStayCommitted ==
  Called =>
    /\ call.ret \in {1, 7} =>
         /\ _time_ready
         /\ _last_sync_time =
              IF call.pre.time_ready THEN call.pre.last_sync_time ELSE call.current_time
         /\ _cached_credentials = call.credentials
         /\ _cached_credentials = _cached_device_id \o <<":">> \o _cached_token
         /\ Colons(_cached_device_id) = 0
    /\ ~call.pre.time_ready /\ call.ret \in {4, 5, 6} =>
         /\ _time_ready
         /\ _last_sync_time = call.current_time
         /\ CacheNow = CacheBefore

\* a first call that became time ready, validated new credentials and
\* then failed in the transport: all of it is kept
C17_Witness ==
  /\ Called /\ call.ret = 7
  /\ ~call.pre.time_ready /\ call.parsed
  /\ _time_ready /\ _last_sync_time = call.current_time
  /\ _cached_credentials = call.credentials

\* C19 as stated: timeReady implies lastGoodTime >= THRESHOLD_EPOCH; a
\* request is sent only by a call whose last reading now satisfies
\* THRESHOLD_EPOCH <= lastGoodTime <= now <= lastGoodTime + 86400; and no
\* call that read a clock below THRESHOLD_EPOCH sends a request.
C19_TimeInvariant_AsStated ==
  /\ _time_ready => _last_sync_time >= _YEAR_2026_EPOCH
  /\ Called /\ call.requests # <<>> =>
       /\ _YEAR_2026_EPOCH <= _last_sync_time
       /\ _last_sync_time <= call.current_time
       /\ call.current_time <= _last_sync_time + 86400
       /\ \A i \in 1..Len(call.reads) : call.reads[i] >= _YEAR_2026_EPOCH

\* C19 as amended: the same, except that it is the last reading of the
\* call that is never below THRESHOLD_EPOCH when a request is sent.
C19_TimeInvariant ==
  /\ _time_ready => _last_sync_time >= _YEAR_2026_EPOCH
  /\ Called /\ call.requests # <<>> =>
       /\ _time_ready
       /\ _YEAR_2026_EPOCH <= _last_sync_time
       /\ _last_sync_time <= call.current_time
       /\ call.current_time <= _last_sync_time + 86400
       /\ call.reads # <<>>
       /\ call.reads[Len(call.reads)] = call.current_time
       /\ call.current_time >= _YEAR_2026_EPOCH

\* a call that first read a clock below THRESHOLD_EPOCH, synced, read a
\* valid clock and sent the heartbeat
C19_Witness ==
  /\ Called /\ call.requests # <<>>
  /\ Len(call.reads) = 2
  /\ call.reads[1] < _YEAR_2026_EPOCH
  /\ call.reads[2] >= _YEAR_2026_EPOCH

(***************************************************************************)
(* Claims about the healthy caller loop (SpecHealthy)                      *)
(***************************************************************************)

\* the status the healthy loop holds is the one of a call that went through
\* all four steps and returned Q_OK
ReturnedOK == healthy /\ pc = "returned" /\ call.step = 4 /\ call.ret = Q_OK /\ ~call.raised

\* the healthy loop's last call returned Q_ERR_TIME_NOT_READY at the time gate
LastTimeNotReady == healthy /\ call.step = 2 /\ call.ret = Q_ERR_TIME_NOT_READY

\* C13: recoverability.  Once the loop runs under healthy conditions
\* (connected, clock non-decreasing and >= THRESHOLD_EPOCH, valid
\* credentials, transport answering 2xx), whatever the client state is, a
\* call returning OK eventually occurs; and the call that follows a call
\* that returned TIME_NOT_READY (staleness or rollback) passes the time gate
\* and returns OK, so TIME_NOT_READY is never returned twice in a row.
C13_Recoverable ==
  /\ healthy ~> ReturnedOK
  /\ [][LastTimeNotReady /\ IsCall
          => /\ call'.step = 4
             /\ call'.ret = Q_OK
             /\ ~call'.raised
             /\ call'.current_time >= _YEAR_2026_EPOCH]_vars

\* the healthy loop has just got Q_OK from a call entered with the flag
\* cleared by a staleness or rollback refusal (a confirmation older than the
\* window, or later than the clock, is still recorded)
C13_Witness ==
  /\ ReturnedOK
  /\ ~call.pre.time_ready
  /\ call.pre.last_sync_time >= _YEAR_2026_EPOCH
  /\ IsStale(call.current_time, call.pre.last_sync_time)

\* the healthy loop's call was entered with the clock confirmed more than
\* the staleness window ago
MadeAfterWindow ==
  /\ healthy
  /\ Called
  /\ call.pre.time_ready
  /\ call.current_time > call.pre.last_sync_time + STALE_WINDOW

\* C20: OK heartbeats do not extend the staleness window.  In the healthy
\* loop a call that returns OK reads a clock within 86400 s after the
\* recorded confirmation and, unless it is the cold-start call that made the
\* confirmation, leaves the confirmation as it was; a call made more than
\* 86400 s after the confirmation returns TIME_NOT_READY and sends nothing
\* although its clock is valid; and the call after it confirms the clock
\* again without a sync and returns OK.
C20_WindowNotExtended ==
  /\ [](ReturnedOK
          => /\ _last_sync_time <= call.current_time
             /\ call.current_time <= _last_sync_time + STALE_WINDOW
             /\ call.pre.time_ready => _last_sync_time = call.pre.last_sync_time
             /\ ~call.pre.time_ready => _last_sync_time = call.current_time)
  /\ [](MadeAfterWindow
          => /\ call.step = 2
             /\ call.ret = Q_ERR_TIME_NOT_READY
             /\ call.requests = << >>
             /\ ~BelowThreshold(call.current_time)
             /\ ~_time_ready
             /\ _last_sync_time = call.pre.last_sync_time)
  /\ [][LastTimeNotReady /\ IsCall
          => /\ ~call'.pre.time_ready
             /\ call'.syncs = 0
             /\ call'.ret = Q_OK
             /\ Len(call'.requests) = 1
             /\ _time_ready'
             /\ _last_sync_time' = call'.current_time]_vars

\* a call of the healthy loop made more than 86400 s after the confirmation
\* was refused with a valid clock, and nothing was sent
C20_Witness ==
  /\ MadeAfterWindow
  /\ pc = "returned"
  /\ call.ret = Q_ERR_TIME_NOT_READY
  /\ call.current_time >= _YEAR_2026_EPOCH
  /\ call.requests = << >>

(***************************************************************************)
(* Claims about two threads in uplink_blocking (SpecConc)                  *)
(***************************************************************************)

\* the two parts of the credentials thread t passes
OwnDeviceId(t) == Prefix(ThreadCredentials(t), Index(ThreadCredentials(t), COLON))
OwnToken(t) == Suffix(ThreadCredentials(t), Index(ThreadCredentials(t), COLON) + 1)

\* thread t has returned from a call that posted
Posted(t) == conc.thread[t].pc = "returned" /\ conc.thread[t].requests # << >>

\* C18: unsynchronized concurrent use is unsafe.  As long as no call has
\* been entered while another thread was inside one (the calls are
\* serialized), every POST carries the device ID and the token of the
\* credentials its own caller passed; the witness below is the state the
\* claim says interleaving reaches: a POST whose device ID and token come
\* from two different credential strings.
C18_SerializedCallsSendOwnCredentials ==
  ~conc.interleaved
    => \A t \in Threads :
         Posted(t)
           => conc.thread[t].requests =
                << [DID |-> OwnDeviceId(t), Authorization |-> Str_Bearer \o OwnToken(t)] >>

\* two interleaved calls, and one of them has posted its own device ID with
\* the other caller's token, or the other caller's device ID with its own
\* token
C18_Witness ==
  /\ conc.interleaved
  /\ \E t \in Threads : \E u \in Threads \ {t} :
       /\ Posted(t)
       /\ \/ conc.thread[t].requests =
               << [DID |-> OwnDeviceId(t), Authorization |-> Str_Bearer \o OwnToken(u)] >>
          \/ conc.thread[t].requests =
               << [DID |-> OwnDeviceId(u), Authorization |-> Str_Bearer \o OwnToken(t)] >>

=============================================================================
